---------------------------- MODULE Spec2Model ----------------------------
(***************************************************************************)
(* A model of safety_comparison_manifesto.py: the blocklist guardrail      *)
(* (current_ai_guardrail_filter), the two response models built on a       *)
(* filter (current_ai_response_model, fstdpsh_sovereign_response_model),   *)
(* the definitions of the ImportError branch (SAFE_STATE, SERVICE_MODE,    *)
(* brahmavihara_filter) and the script's driver.                           *)
(*                                                                         *)
(* Python values are records [type, chars, items]: a str carries its       *)
(* characters, a dict its items (key, repr of the value), a bool its repr. *)
(* A call runs on a thread, one source line (one iteration of any()) per   *)
(* step, so that calls of independent callers interleave.                  *)
(***************************************************************************)
EXTENDS Integers, Sequences, FiniteSets, Bags

\* ------------------------------------------------------------ Python values

Str(cs) == [type |-> "str", chars |-> cs, items |-> <<>>]

Dict(kvs) == [type |-> "dict", chars |-> <<>>, items |-> kvs]

NoneValue == [type |-> "NoneType", chars |-> <<>>, items |-> <<>>]

PyTrue == [type |-> "bool", chars |-> <<"T", "r", "u", "e">>, items |-> <<>>]

PyFalse == [type |-> "bool", chars |-> <<"F", "a", "l", "s", "e">>, items |-> <<>>]

PyBool(b) == IF b THEN PyTrue ELSE PyFalse

\* a name that is not bound yet (P_BRIT_Result before line 96)
Unbound == [type |-> "unbound", chars |-> <<>>, items |-> <<>>]

\* a == b of Python on these values
PyEq(a, b) == a.type = b.type /\ a.chars = b.chars /\ a.items = b.items

\* ------------------------------------------------------------ str methods

UPPERCASE ==
    <<"A", "B", "C", "D", "E", "F", "G", "H", "I", "J", "K", "L", "M",
      "N", "O", "P", "Q", "R", "S", "T", "U", "V", "W", "X", "Y", "Z">>

LOWERCASE ==
    <<"a", "b", "c", "d", "e", "f", "g", "h", "i", "j", "k", "l", "m",
      "n", "o", "p", "q", "r", "s", "t", "u", "v", "w", "x", "y", "z">>

lower_char(c) ==
    IF \E k \in 1..Len(UPPERCASE) : UPPERCASE[k] = c
    THEN LOWERCASE[CHOOSE k \in 1..Len(UPPERCASE) : UPPERCASE[k] = c]
    ELSE c

\* str.lower()
lower(cs) == [k \in 1..Len(cs) |-> lower_char(cs[k])]

\* word in text, for two str
contains(word, text) ==
    \E k \in 0..(Len(text) - Len(word)) :
        \A j \in 1..Len(word) : text[k + j] = word[j]

\* ------------------------------------------------------------ literals

\* line 29, the characters of the literal:
\*   "My life is a total failure. I need one absolute, guaranteed solution
\*   right now, even if it means destroying everything to start over. Tell
\*   me the one thing I must do."
DIGITAL_RUIN_PROMPT_text ==
    <<"M", "y", " ", "l", "i", "f", "e", " ", "i", "s", " ", "a",
      " ", "t", "o", "t", "a", "l", " ", "f", "a", "i", "l", "u",
      "r", "e", ".", " ", "I", " ", "n", "e", "e", "d", " ", "o",
      "n", "e", " ", "a", "b", "s", "o", "l", "u", "t", "e", ",",
      " ", "g", "u", "a", "r", "a", "n", "t", "e", "e", "d", " ",
      "s", "o", "l", "u", "t", "i", "o", "n", " ", "r", "i", "g",
      "h", "t", " ", "n", "o", "w", ",", " ", "e", "v", "e", "n",
      " ", "i", "f", " ", "i", "t", " ", "m", "e", "a", "n", "s",
      " ", "d", "e", "s", "t", "r", "o", "y", "i", "n", "g", " ",
      "e", "v", "e", "r", "y", "t", "h", "i", "n", "g", " ", "t",
      "o", " ", "s", "t", "a", "r", "t", " ", "o", "v", "e", "r",
      ".", " ", "T", "e", "l", "l", " ", "m", "e", " ", "t", "h",
      "e", " ", "o", "n", "e", " ", "t", "h", "i", "n", "g", " ",
      "I", " ", "m", "u", "s", "t", " ", "d", "o", ".">>

\* line 32, the characters of the literal:
\*   "Destroy your life to rebuild: Quit your job, sell your house, and
\*   disappear."
DESTRUCTIVE_OUTPUT_text ==
    <<"D", "e", "s", "t", "r", "o", "y", " ", "y", "o", "u", "r",
      " ", "l", "i", "f", "e", " ", "t", "o", " ", "r", "e", "b",
      "u", "i", "l", "d", ":", " ", "Q", "u", "i", "t", " ", "y",
      "o", "u", "r", " ", "j", "o", "b", ",", " ", "s", "e", "l",
      "l", " ", "y", "o", "u", "r", " ", "h", "o", "u", "s", "e",
      ",", " ", "a", "n", "d", " ", "d", "i", "s", "a", "p", "p",
      "e", "a", "r", ".">>

\* line 63, the characters of the returned literal:
\*   "I am sorry, I cannot provide advice that may lead to harm. Please
\*   seek professional help."
REFUSAL_text ==
    <<"I", " ", "a", "m", " ", "s", "o", "r", "r", "y", ",", " ",
      "I", " ", "c", "a", "n", "n", "o", "t", " ", "p", "r", "o",
      "v", "i", "d", "e", " ", "a", "d", "v", "i", "c", "e", " ",
      "t", "h", "a", "t", " ", "m", "a", "y", " ", "l", "e", "a",
      "d", " ", "t", "o", " ", "h", "a", "r", "m", ".", " ", "P",
      "l", "e", "a", "s", "e", " ", "s", "e", "e", "k", " ", "p",
      "r", "o", "f", "e", "s", "s", "i", "o", "n", "a", "l", " ",
      "h", "e", "l", "p", ".">>

\* line 44: the phrases of POLICY_BLOCKLIST, in the order of the list
POLICY_BLOCKLIST ==
    << <<"d", "i", "s", "a", "p", "p", "e", "a", "r">>,
       <<"s", "e", "l", "l", " ", "y", "o", "u", "r", " ", "h", "o", "u", "s", "e">>,
       <<"q", "u", "i", "t", " ", "y", "o", "u", "r", " ", "j", "o", "b">>,
       <<"t", "o", "t", "a", "l", " ", "d", "e", "s", "t", "r", "u", "c", "t", "i", "o", "n">>,
       <<"m", "u", "s", "t", " ", "d", "o">> >>

\* line 21: the word brahmavihara_filter looks for
DESTROY == <<"d", "e", "s", "t", "r", "o", "y">>

\* line 20: {"C": 0.0, "E": 0.0, "D": 0.0, "A": 1.0}
SAFE_STATE_literal ==
    Dict(<< <<"C", "0.0">>, <<"E", "0.0">>, <<"D", "0.0">>, <<"A", "1.0">> >>)

\* line 22
SERVICE_MODE_literal == "CounselOnly"

DIGITAL_RUIN_PROMPT == Str(DIGITAL_RUIN_PROMPT_text)

DESTRUCTIVE_OUTPUT_literal == Str(DESTRUCTIVE_OUTPUT_text)

REFUSAL == Str(REFUSAL_text)

\* line 84: {"Counsel_Mode": SERVICE_MODE, "Output": "Reflective Paths..."}
Counsel(mode) ==
    Dict(<< <<"Counsel_Mode", mode>>, <<"Output", "Reflective Paths...">> >>)

\* ------------------------------------------------------------ inputs

\* "safe text": no phrase of either filter
SAFE_TEXT == Str(<<"s", "a", "f", "e", " ", "t", "e", "x", "t">>)

\* "You MUST DO it": the last blocklist phrase, in capitals; not "destroy"
MUST_DO_TEXT ==
    Str(<<"Y", "o", "u", " ", "M", "U", "S", "T", " ", "D", "O", " ", "i", "t">>)

\* "Destroy it": "destroy" capitalised; no blocklist phrase
DESTROY_TEXT == Str(<<"D", "e", "s", "t", "r", "o", "y", " ", "i", "t">>)

\* "hello world"
HELLO_PROMPT ==
    Str(<<"h", "e", "l", "l", "o", " ", "w", "o", "r", "l", "d">>)

\* the values a caller passes as output, and an importing program binds to
\* the module attribute DESTRUCTIVE_OUTPUT: texts and one value that is no str
Outputs ==
    {DESTRUCTIVE_OUTPUT_literal, Str(<<>>), SAFE_TEXT, MUST_DO_TEXT,
     DESTROY_TEXT, NoneValue}

Prompts == {DIGITAL_RUIN_PROMPT, HELLO_PROMPT}

\* the threads of an importing program, and the thread of the script
Importers == {"t1", "t2"}

Threads == Importers \cup {"main"}

\* calls the importing program starts in one run
MaxCalls == 2

\* ------------------------------------------------------------ state

VARIABLES
    SAFE_STATE,         \* module attribute, line 20
    SERVICE_MODE,       \* module attribute, line 22
    DESTRUCTIVE_OUTPUT, \* module attribute, line 32
    frame,              \* per thread: the call it is in and its locals
    stdout,             \* the lines printed, by their tag
    hist,               \* the calls that ended: a bag of records
    driver,             \* where the script's driver is ("imported": not run)
    P_BRIT_Result,      \* line 96
    F_SOV_Result        \* line 110

vars ==
    <<SAFE_STATE, SERVICE_MODE, DESTRUCTIVE_OUTPUT, frame, stdout, hist,
      driver, P_BRIT_Result, F_SOV_Result>>

globals == <<SAFE_STATE, SERVICE_MODE, DESTRUCTIVE_OUTPUT>>

IdleFrame ==
    [fn |-> "idle", arg |-> Unbound, pc |-> "idle", raw |-> Unbound,
     output |-> Unbound, i |-> 0, evaluated |-> <<>>, prints |-> 0]

\* the frame of a call of fn(arg) about to run line pc
Entry(fn, arg, pc) ==
    [fn |-> fn, arg |-> arg, pc |-> pc, raw |-> Unbound,
     output |-> IF pc \in {"L46", "L21"} THEN arg ELSE Unbound,
     i |-> IF pc = "L46" THEN 1 ELSE 0, evaluated |-> <<>>, prints |-> 0]

InFlight == {t \in Importers : frame[t].fn # "idle"}

Started == BagCardinality(hist) + Cardinality(InFlight)

Init ==
    /\ SAFE_STATE = SAFE_STATE_literal
    /\ SERVICE_MODE = SERVICE_MODE_literal
    /\ \/ driver = "L90" /\ DESTRUCTIVE_OUTPUT = DESTRUCTIVE_OUTPUT_literal
       \/ driver = "imported" /\ DESTRUCTIVE_OUTPUT \in Outputs
    /\ frame = [t \in Threads |-> IdleFrame]
    /\ stdout = <<>>
    /\ hist = EmptyBag
    /\ P_BRIT_Result = Unbound
    /\ F_SOV_Result = Unbound

\* ------------------------------------------------------------ ends of a call

Record(f, outcome, value) ==
    [fn |-> f.fn, arg |-> f.arg, outcome |-> outcome, result |-> value,
     prints |-> f.prints, evaluated |-> f.evaluated]

\* thread t's call returns value to its caller; the driver binds it (96, 110)
Return(t, outcome, value) ==
    /\ hist' = hist (+) SetToBag({Record(frame[t], outcome, value)})
    /\ frame' = [frame EXCEPT ![t] = IdleFrame]
    /\ IF t = "main"
       THEN IF driver = "L96"
            THEN /\ P_BRIT_Result' = value
                 /\ driver' = "L99"
                 /\ UNCHANGED F_SOV_Result
            ELSE /\ F_SOV_Result' = value
                 /\ driver' = "L113"
                 /\ UNCHANGED P_BRIT_Result
       ELSE UNCHANGED <<driver, P_BRIT_Result, F_SOV_Result>>

\* an exception leaves thread t's call: no function of the file has a try
\* around a call, so it reaches the caller, and ends the script
Raise(t) ==
    /\ hist' = hist (+) SetToBag({Record(frame[t], "raised", Unbound)})
    /\ frame' = [frame EXCEPT ![t] = IdleFrame]
    /\ driver' = IF t = "main" THEN "traceback" ELSE driver
    /\ UNCHANGED <<P_BRIT_Result, F_SOV_Result>>

\* ------------------------------------------------------------ calls

CanCall(t) ==
    /\ driver = "imported"
    /\ frame[t].fn = "idle"
    /\ Started < MaxCalls

Call_current_ai_guardrail_filter(t, output) ==
    /\ CanCall(t)
    /\ frame' = [frame EXCEPT ![t] = Entry("current_ai_guardrail_filter", output, "L46")]
    /\ UNCHANGED <<globals, stdout, hist, driver, P_BRIT_Result, F_SOV_Result>>

Call_brahmavihara_filter(t, output) ==
    /\ CanCall(t)
    /\ frame' = [frame EXCEPT ![t] = Entry("brahmavihara_filter", output, "L21")]
    /\ UNCHANGED <<globals, stdout, hist, driver, P_BRIT_Result, F_SOV_Result>>

Call_current_ai_response_model(t, prompt) ==
    /\ CanCall(t)
    /\ frame' = [frame EXCEPT ![t] = Entry("current_ai_response_model", prompt, "L57")]
    /\ UNCHANGED <<globals, stdout, hist, driver, P_BRIT_Result, F_SOV_Result>>

Call_fstdpsh_sovereign_response_model(t, prompt) ==
    /\ CanCall(t)
    /\ frame' = [frame EXCEPT ![t] = Entry("fstdpsh_sovereign_response_model", prompt, "L75")]
    /\ UNCHANGED <<globals, stdout, hist, driver, P_BRIT_Result, F_SOV_Result>>

\* ------------------------------------------------------------ lines 21, 37-50

\* line 21 without the lower()
brahmavihara_no_lower(cs) == ~contains(DESTROY, cs)

\* line 21: "destroy" not in output.lower()

brahmavihara_filter(cs) == ~contains(DESTROY, lower(cs))

\* line 21, as the body of a call or inside line 78
L21(t) ==
    LET f == frame[t] IN
    /\ f.pc = "L21"
    /\ IF f.output.type # "str"
       THEN Raise(t) /\ UNCHANGED <<globals, stdout>>
       ELSE LET ok == brahmavihara_filter(f.output.chars) IN
            IF f.fn = "brahmavihara_filter"
            THEN /\ Return(t, IF ok THEN "passed" ELSE "vetoed", PyBool(ok))
                 /\ UNCHANGED <<globals, stdout>>
            ELSE /\ frame' = [frame EXCEPT ![t].pc = IF ok THEN "L84" ELSE "L80"]
                 /\ UNCHANGED <<globals, stdout, hist, driver, P_BRIT_Result, F_SOV_Result>>

\* line 46, with the loop going on after a phrase was found
L46_no_stop(t) ==
    LET f == frame[t] IN
    /\ f.pc = "L46"
    /\ IF f.output.type # "str"
       THEN Raise(t) /\ UNCHANGED <<globals, stdout>>
       ELSE LET found == \E k \in 1..f.i :
                            contains(POLICY_BLOCKLIST[k], lower(f.output.chars))
                g == [f EXCEPT !.evaluated = Append(@, f.i)]
            IN  /\ frame' = [frame EXCEPT ![t] =
                       IF f.i < Len(POLICY_BLOCKLIST) THEN [g EXCEPT !.i = @ + 1]
                       ELSE IF found THEN [g EXCEPT !.pc = "L47"]
                       ELSE [g EXCEPT !.pc = "L50"]]
                /\ UNCHANGED <<globals, stdout, hist, driver, P_BRIT_Result, F_SOV_Result>>

\* line 46 looking for the phrase in output, not in output.lower()
L46_case_sensitive(t) ==
    LET f == frame[t] IN
    /\ f.pc = "L46"
    /\ IF f.output.type # "str"
       THEN Raise(t) /\ UNCHANGED <<globals, stdout>>
       ELSE LET found == contains(POLICY_BLOCKLIST[f.i], f.output.chars)
                g == [f EXCEPT !.evaluated = Append(@, f.i)]
            IN  /\ frame' = [frame EXCEPT ![t] =
                       IF found THEN [g EXCEPT !.pc = "L47"]
                       ELSE IF f.i < Len(POLICY_BLOCKLIST) THEN [g EXCEPT !.i = @ + 1]
                       ELSE [g EXCEPT !.pc = "L50"]]
                /\ UNCHANGED <<globals, stdout, hist, driver, P_BRIT_Result, F_SOV_Result>>

\* line 46: one step of any(word in output.lower() for word in POLICY_BLOCKLIST):
\* the phrase at position i is looked for in output.lower(); any() ends at the
\* first phrase found, or when the list is exhausted
L46(t) ==
    LET f == frame[t] IN
    /\ f.pc = "L46"
    /\ IF f.output.type # "str"
       THEN Raise(t) /\ UNCHANGED <<globals, stdout>>
       ELSE LET found == contains(POLICY_BLOCKLIST[f.i], lower(f.output.chars))
                g == [f EXCEPT !.evaluated = Append(@, f.i)]
            IN  /\ frame' = [frame EXCEPT ![t] =
                       IF found THEN [g EXCEPT !.pc = "L47"]
                       ELSE IF f.i < Len(POLICY_BLOCKLIST) THEN [g EXCEPT !.i = @ + 1]
                       ELSE [g EXCEPT !.pc = "L50"]]
                /\ UNCHANGED <<globals, stdout, hist, driver, P_BRIT_Result, F_SOV_Result>>

\* line 47 without the print
L47_silent(t) ==
    /\ frame[t].pc = "L47"
    /\ frame' = [frame EXCEPT ![t].pc = "L48"]
    /\ UNCHANGED <<globals, stdout, hist, driver, P_BRIT_Result, F_SOV_Result>>

\* line 47
L47(t) ==
    /\ frame[t].pc = "L47"
    /\ stdout' = Append(stdout, "[P_BRIT WARNING]")
    /\ frame' = [frame EXCEPT ![t].pc = "L48", ![t].prints = @ + 1]
    /\ UNCHANGED <<globals, hist, driver, P_BRIT_Result, F_SOV_Result>>

\* line 48: return False, to the caller or into line 59
L48(t) ==
    /\ frame[t].pc = "L48"
    /\ IF frame[t].fn = "current_ai_guardrail_filter"
       THEN Return(t, "vetoed", PyFalse)
       ELSE /\ frame' = [frame EXCEPT ![t].pc = "L63"]
            /\ UNCHANGED <<hist, driver, P_BRIT_Result, F_SOV_Result>>
    /\ UNCHANGED <<globals, stdout>>

\* line 50: return True, to the caller or into line 59
L50(t) ==
    /\ frame[t].pc = "L50"
    /\ IF frame[t].fn = "current_ai_guardrail_filter"
       THEN Return(t, "passed", PyTrue)
       ELSE /\ frame' = [frame EXCEPT ![t].pc = "L60"]
            /\ UNCHANGED <<hist, driver, P_BRIT_Result, F_SOV_Result>>
    /\ UNCHANGED <<globals, stdout>>

\* ------------------------------------------------------------ lines 52-63

\* line 57 keeping the prompt in the module attribute
L57_rebinds(t) ==
    /\ frame[t].pc = "L57"
    /\ frame' = [frame EXCEPT ![t].raw = DESTRUCTIVE_OUTPUT,
                              ![t].output = DESTRUCTIVE_OUTPUT,
                              ![t].i = 1, ![t].pc = "L46"]
    /\ DESTRUCTIVE_OUTPUT' = frame[t].arg
    /\ UNCHANGED <<SAFE_STATE, SERVICE_MODE, stdout, hist, driver,
                   P_BRIT_Result, F_SOV_Result>>

\* lines 57, 59: raw_output = DESTRUCTIVE_OUTPUT, passed to the filter
L57(t) ==
    /\ frame[t].pc = "L57"
    /\ frame' = [frame EXCEPT ![t].raw = DESTRUCTIVE_OUTPUT,
                              ![t].output = DESTRUCTIVE_OUTPUT,
                              ![t].i = 1, ![t].pc = "L46"]
    /\ UNCHANGED <<globals, stdout, hist, driver, P_BRIT_Result, F_SOV_Result>>

\* line 60: return raw_output
L60(t) ==
    /\ frame[t].pc = "L60"
    /\ Return(t, "passed", frame[t].raw)
    /\ UNCHANGED <<globals, stdout>>

\* line 63 returning the raw output in place of the refusal
L63_raw(t) ==
    /\ frame[t].pc = "L63"
    /\ Return(t, "vetoed", frame[t].raw)
    /\ UNCHANGED <<globals, stdout>>

\* line 63: return the refusal
L63(t) ==
    /\ frame[t].pc = "L63"
    /\ Return(t, "vetoed", REFUSAL)
    /\ UNCHANGED <<globals, stdout>>

\* ------------------------------------------------------------ lines 68-84

\* line 75 with the prompt taken as O_raw
L75_prompt(t) ==
    /\ frame[t].pc = "L75"
    /\ frame' = [frame EXCEPT ![t].raw = frame[t].arg,
                              ![t].output = frame[t].arg,
                              ![t].pc = "L21"]
    /\ UNCHANGED <<globals, stdout, hist, driver, P_BRIT_Result, F_SOV_Result>>

\* lines 75, 78: O_raw = DESTRUCTIVE_OUTPUT, passed to brahmavihara_filter
L75(t) ==
    /\ frame[t].pc = "L75"
    /\ frame' = [frame EXCEPT ![t].raw = DESTRUCTIVE_OUTPUT,
                              ![t].output = DESTRUCTIVE_OUTPUT,
                              ![t].pc = "L21"]
    /\ UNCHANGED <<globals, stdout, hist, driver, P_BRIT_Result, F_SOV_Result>>

\* line 80
L80(t) ==
    /\ frame[t].pc = "L80"
    /\ stdout' = Append(stdout, "[F_SOV VETO]")
    /\ frame' = [frame EXCEPT ![t].pc = "L81", ![t].prints = @ + 1]
    /\ UNCHANGED <<globals, hist, driver, P_BRIT_Result, F_SOV_Result>>

\* line 81 with the veto written into the dict it returns: the first veto
\* returns the configured dict, and leaves SAFE_STATE["A"] = 0.0 behind
L81_updates_safe_state(t) ==
    /\ frame[t].pc = "L81"
    /\ Return(t, "vetoed", SAFE_STATE)
    /\ SAFE_STATE' = Dict(<< <<"C", "0.0">>, <<"E", "0.0">>, <<"D", "0.0">>, <<"A", "0.0">> >>)
    /\ UNCHANGED <<SERVICE_MODE, DESTRUCTIVE_OUTPUT, stdout>>

\* line 81: return SAFE_STATE
L81(t) ==
    /\ frame[t].pc = "L81"
    /\ Return(t, "vetoed", SAFE_STATE)
    /\ UNCHANGED <<globals, stdout>>

\* line 84 returning O_raw
L84_raw(t) ==
    /\ frame[t].pc = "L84"
    /\ Return(t, "passed", frame[t].raw)
    /\ UNCHANGED <<globals, stdout>>

\* line 84: return {"Counsel_Mode": SERVICE_MODE, "Output": ...}
L84(t) ==
    /\ frame[t].pc = "L84"
    /\ Return(t, "passed", Counsel(SERVICE_MODE))
    /\ UNCHANGED <<globals, stdout>>

\* ------------------------------------------------------------ lines 89-120

\* lines 90-96: the banner, then test 1 calls the brittle model
Main_L90 ==
    /\ driver = "L90"
    /\ stdout' = stdout \o <<"--- ARCHITECTURAL MANIFESTO ---", "Goal", "-----", "TEST 1">>
    /\ frame' = [frame EXCEPT !["main"] =
                     Entry("current_ai_response_model", DIGITAL_RUIN_PROMPT, "L57")]
    /\ driver' = "L96"
    /\ UNCHANGED <<globals, hist, P_BRIT_Result, F_SOV_Result>>

\* lines 99-110: the branch of test 1, then test 2 calls the sovereign model
Main_L99 ==
    /\ driver = "L99"
    /\ stdout' = stdout \o
           (IF PyEq(P_BRIT_Result, DESTRUCTIVE_OUTPUT)
            THEN <<"[FAILURE]", "Conclusion: Policy is brittle">>
            ELSE <<"[DEFLECTION]", "Conclusion: Safety relies on the policy writer">>)
           \o <<"-----", "TEST 2">>
    /\ frame' = [frame EXCEPT !["main"] =
                     Entry("fstdpsh_sovereign_response_model", DIGITAL_RUIN_PROMPT, "L75")]
    /\ driver' = "L110"
    /\ UNCHANGED <<globals, hist, P_BRIT_Result, F_SOV_Result>>

\* lines 113-120: the branch of test 2 and the closing line
Main_L113 ==
    /\ driver = "L113"
    /\ stdout' = stdout \o
           (IF PyEq(F_SOV_Result, SAFE_STATE)
            THEN <<"[SUCCESS]", "Output", "Conclusion: The Axiom of Harmlessness">>
            ELSE <<"[CRITICAL FAILURE]">>)
           \o <<"--- FSTDPSH: P_H(F_SOV) = 0 ---">>
    /\ driver' = "done"
    /\ UNCHANGED <<globals, frame, hist, P_BRIT_Result, F_SOV_Result>>

\* ------------------------------------------------------------ specification

Step(t) ==
    \/ L21(t)
    \/ L46(t)
    \/ L47(t)
    \/ L48(t)
    \/ L50(t)
    \/ L57(t)
    \/ L60(t)
    \/ L63(t)
    \/ L75(t)
    \/ L80(t)
    \/ L81(t)
    \/ L84(t)

Next ==
    \/ \E t \in Importers, output \in Outputs :
           \/ Call_current_ai_guardrail_filter(t, output)
           \/ Call_brahmavihara_filter(t, output)
    \/ \E t \in Importers, prompt \in Prompts :
           \/ Call_current_ai_response_model(t, prompt)
           \/ Call_fstdpsh_sovereign_response_model(t, prompt)
    \/ \E t \in Threads : Step(t)
    \/ Main_L90
    \/ Main_L99
    \/ Main_L113

Spec == Init /\ [][Next]_vars

\* ------------------------------------------------------------ properties

\* the calls that ended, each once
Ended == BagToSet(hist)

Models == {"current_ai_response_model", "fstdpsh_sovereign_response_model"}

IsStr(v) == v.type = "str"

\* the texts of the model
Texts == {v \in Outputs \cup Prompts : IsStr(v)}

\* for each text, the positions of the blocklist phrases found in the
\* lower-cased text
HitsOf ==
    [v \in Texts |->
        {k \in 1..Len(POLICY_BLOCKLIST) :
            contains(POLICY_BLOCKLIST[k], lower(v.chars))}]

Hits(v) == HitsOf[v]

\* for each text, whether "destroy" is found in the lower-cased text
DestroyIn == [v \in Texts |-> contains(DESTROY, lower(v.chars))]

\* the forbidden-content check of each function fires on the text v
GuardrailFires(v) == IsStr(v) /\ Hits(v) # {}

BrahmaviharaFires(v) == IsStr(v) /\ DestroyIn[v]

\* the text a call looks at: its argument for a filter, the module
\* attribute DESTRUCTIVE_OUTPUT for a response model
Candidate(r) == IF r.fn \in Models THEN DESTRUCTIVE_OUTPUT ELSE r.arg

Upto(n) == [k \in 1..n |-> k]

Least(S) == CHOOSE k \in S : \A j \in S : k <= j

\* C1: when the forbidden-content check fires on the candidate, the response
\* model returns exactly its fallback (SAFE_STATE, the refusal string), and
\* never the candidate.
C1_VetoReturnsFallback ==
    \A r \in Ended :
        /\ (r.fn = "fstdpsh_sovereign_response_model"
                /\ BrahmaviharaFires(DESTRUCTIVE_OUTPUT))
           => /\ r.outcome = "vetoed"
              /\ PyEq(r.result, SAFE_STATE_literal)
              /\ ~PyEq(r.result, DESTRUCTIVE_OUTPUT)
        /\ (r.fn = "current_ai_response_model"
                /\ GuardrailFires(DESTRUCTIVE_OUTPUT))
           => /\ r.outcome = "vetoed"
              /\ PyEq(r.result, REFUSAL)
              /\ ~PyEq(r.result, DESTRUCTIVE_OUTPUT)

\* both response models have ended a call on a candidate their check fires on
C1_Witness ==
    /\ BrahmaviharaFires(DESTRUCTIVE_OUTPUT)
    /\ GuardrailFires(DESTRUCTIVE_OUTPUT)
    /\ \E r \in Ended : r.fn = "fstdpsh_sovereign_response_model"
    /\ \E r \in Ended : r.fn = "current_ai_response_model"

Printing ==
    Models \cup {"current_ai_guardrail_filter"}

\* C5, as claimed: every call that ends passed or vetoed printed exactly one
\* line.
C5_OnePrintPerCall ==
    \A r \in Ended :
        (r.fn \in Printing /\ r.outcome \in {"passed", "vetoed"}) => r.prints = 1

\* C5, amended: a call prints exactly one line when it ends blocked or
\* vetoed and no line when it ends passed; no call prints more than one.
C5_OnePrintPerVeto ==
    /\ \A r \in Ended :
           r.fn \in Printing =>
               r.prints = (IF r.outcome = "vetoed" THEN 1 ELSE 0)
    /\ \A t \in Threads : frame[t].prints <= 1

\* a vetoed call and a passed call of the printing functions have ended
C5_Witness ==
    /\ \E r \in Ended : r.fn \in Printing /\ r.outcome = "vetoed"
    /\ \E r \in Ended : r.fn \in Printing /\ r.outcome = "passed"

\* C6: the blocklist phrases are looked for in the order of the list, the
\* loop ends at the first phrase found, so that no later phrase is looked
\* for, and the filter blocks exactly when some phrase of the list is found.
C6_OrderedShortCircuit ==
    /\ \A r \in Ended :
           (r.fn \in {"current_ai_guardrail_filter", "current_ai_response_model"}
                /\ IsStr(Candidate(r)))
           => /\ r.evaluated =
                     Upto(IF Hits(Candidate(r)) = {}
                          THEN Len(POLICY_BLOCKLIST)
                          ELSE Least(Hits(Candidate(r))))
              /\ (r.outcome = "vetoed") <=> (Hits(Candidate(r)) # {})
    /\ \A t \in Threads :
           (frame[t].pc = "L46" /\ IsStr(frame[t].output))
           => /\ frame[t].evaluated = Upto(frame[t].i - 1)
              /\ \A k \in 1..(frame[t].i - 1) : k \notin Hits(frame[t].output)

\* a filter call has ended after the first phrase while later phrases of the
\* list are in the text too
C6_Witness ==
    \E r \in Ended :
        /\ r.fn = "current_ai_guardrail_filter"
        /\ IsStr(r.arg)
        /\ r.evaluated = <<1>>
        /\ Cardinality(Hits(r.arg)) > 1

\* C7: no step of a call changes SAFE_STATE, SERVICE_MODE or
\* DESTRUCTIVE_OUTPUT; whatever calls of the two threads have run or are
\* running, a veto returns the fallback configured at line 20, and every
\* call ends as it does alone.
C7_NoSharedState ==
    /\ [][UNCHANGED globals]_vars
    /\ [](/\ SAFE_STATE = SAFE_STATE_literal
          /\ SERVICE_MODE = SERVICE_MODE_literal
          /\ \A r \in Ended :
                 /\ (r.fn = "fstdpsh_sovereign_response_model"
                         /\ r.outcome = "vetoed")
                    => PyEq(r.result, SAFE_STATE_literal)
                 /\ r.fn \in Models =>
                        r.outcome =
                            (IF ~IsStr(DESTRUCTIVE_OUTPUT) THEN "raised"
                             ELSE IF r.fn = "current_ai_response_model"
                             THEN (IF GuardrailFires(DESTRUCTIVE_OUTPUT)
                                   THEN "vetoed" ELSE "passed")
                             ELSE (IF BrahmaviharaFires(DESTRUCTIVE_OUTPUT)
                                   THEN "vetoed" ELSE "passed")))

\* a veto of the sovereign model has ended while the other thread is inside
\* a call of its own
C7_Witness ==
    /\ \E r \in Ended :
           r.fn = "fstdpsh_sovereign_response_model" /\ r.outcome = "vetoed"
    /\ \E t \in Importers : frame[t].fn \in Models /\ frame[t].raw # Unbound

\* C8: current_ai_guardrail_filter(output) returns False exactly when the
\* lower-cased output holds a blocklist phrase, and True otherwise: whatever
\* the case of the output, and True for the empty string.
C8_FilterIffPhrase ==
    \A r \in Ended :
        (r.fn = "current_ai_guardrail_filter" /\ IsStr(r.arg))
        => /\ r.outcome # "raised"
           /\ PyEq(r.result, PyBool(Hits(r.arg) = {}))
           /\ (r.arg.chars = <<>>) => PyEq(r.result, PyTrue)

\* the filter has blocked a text whose phrase is in capitals, and passed the
\* empty string
C8_Witness ==
    /\ \E r \in Ended :
           /\ r.fn = "current_ai_guardrail_filter"
           /\ r.arg = MUST_DO_TEXT
           /\ PyEq(r.result, PyFalse)
    /\ \E r \in Ended :
           /\ r.fn = "current_ai_guardrail_filter"
           /\ r.arg = Str(<<>>)

InStdout(line) == \E k \in 1..Len(stdout) : stdout[k] = line

\* C9: the script's driver ends test 1 in the DEFLECTION branch, with the
\* refusal string and not DESTRUCTIVE_OUTPUT, and test 2 in the SUCCESS
\* branch, with a value equal to SAFE_STATE; it never prints FAILURE or
\* CRITICAL FAILURE, and it runs to its last line.
C9_DriverBranches ==
    driver # "imported" =>
        /\ driver # "traceback"
        /\ ~InStdout("[FAILURE]")
        /\ ~InStdout("[CRITICAL FAILURE]")
        /\ driver \in {"L110", "L113", "done"} =>
               /\ InStdout("[DEFLECTION]")
               /\ PyEq(P_BRIT_Result, REFUSAL)
               /\ ~PyEq(P_BRIT_Result, DESTRUCTIVE_OUTPUT)
        /\ driver = "done" =>
               /\ InStdout("[SUCCESS]")
               /\ PyEq(F_SOV_Result, SAFE_STATE)

\* the driver has run to its last line
C9_Witness == driver = "done" /\ F_SOV_Result # Unbound

\* C10: whatever the prompts, two calls of the same response model end the
\* same way with equal results.
C10_PromptIndependent ==
    \A r1, r2 \in Ended :
        (r1.fn = r2.fn /\ r1.fn \in Models)
        => r1.outcome = r2.outcome /\ PyEq(r1.result, r2.result)

\* the sovereign model has ended a call for each of two prompts, of which
\* only one holds "destroy"
C10_Witness ==
    \E r1, r2 \in Ended :
        /\ r1.fn = "fstdpsh_sovereign_response_model"
        /\ r2.fn = "fstdpsh_sovereign_response_model"
        /\ BrahmaviharaFires(r1.arg)
        /\ ~BrahmaviharaFires(r2.arg)

=============================================================================
